---- MODULE Spec2Model ----
(***************************************************************************)
(* Model of mcp2_toolbox/cli.py: the Process Launcher (_env_with,          *)
(* _run_script), the flag parser (_parse_kv), the command handlers         *)
(* (cmd_new, cmd_watch, cmd_run, cmd_hook_install, cmd_ui, cmd_list,       *)
(* cmd_config), the Config Store (load_config, _cfg_load, _cfg_save) and   *)
(* the dispatcher main().                                                  *)
(*                                                                         *)
(* One action is one call of a public function of the module in a fresh    *)
(* process; the settings file is the only state that survives a call.      *)
(* Optional[str] is modelled as a sequence: <<>> is None, <<s>> is s.      *)
(***************************************************************************)
EXTENDS Integers, Sequences, FiniteSets, TLC

VARIABLES
    op,        \* the call that was made last: function, arguments, inputs
    spawned,   \* the external processes that call spawned, in order
    outcome,   \* how that call ended: return value, SystemExit, exception
    ui,        \* what cmd_ui showed and resolved in that call
    body,      \* for a call of main(): how its try block ended
    loaded,    \* what a load of the settings file returned in that call
    devices,   \* what discover() returned when that call was discover()
    cfgfile,   \* ~/.config/console-hax/mcp2-toolbox.yml
    saved      \* the most recent _cfg_save, if any: its mapping, and whether
               \* the YAML dependency was there

vars == <<op, spawned, outcome, ui, body, loaded, devices, cfgfile, saved>>

----------------------------------------------------------------------------
(* Bounds *)

MaxArgs == 3        \* longest argument list handed directly to a handler
MaxResponses == 2   \* most service responses one discovery pass receives

----------------------------------------------------------------------------
(* Optional values and Python truthiness *)

None == <<>>
Some(v) == <<v>>

\* bool(x) for x an Optional[str]: None and "" are falsy
Truthy(o) == o # None /\ o[1] # ""

----------------------------------------------------------------------------
(* How a call ends *)

Returned(v) == [kind |-> "return", code |-> v, exc |-> ""]
Exited(status) == [kind |-> "exit", code |-> status, exc |-> "SystemExit"]
Raised(e) == [kind |-> "raise", code |-> 0, exc |-> e]
NoOutcome == [kind |-> "none", code |-> 0, exc |-> ""]

\* sys.exit(rc) with an integer: the process status is rc & 0xff
SysExit(rc) == Exited(rc % 256)

\* raise SystemExit("text"): the text goes to stderr, the status is 1
SysExitMsg == Exited(1)

----------------------------------------------------------------------------
(* Process Launcher *)

EnvVars == {"TARGET_PROJECT", "TARGET_ELF", "BUILD_CMD", "WIN_PCSX2_EXE"}

\* _run_script called without env_overrides (None) or with {}
NoOverrides == <<>>

\* A mutant of _env_with that lets every override through, None included
EnvWithUnfiltered(environ, overrides) ==
    [k \in EnvVars |-> IF k \in DOMAIN overrides THEN overrides[k] ELSE environ[k]]

\* _env_with: os.environ.copy() updated with the overrides that are not None
EnvWith(environ, overrides) ==
    [k \in EnvVars |->
        IF k \in DOMAIN overrides /\ overrides[k] # None
        THEN overrides[k]
        ELSE environ[k]]

\* What becomes of one spawn: the script exits with a code, is killed by a
\* signal, cannot be started (OSError), or the operator interrupts the wait.
ScriptResults ==
    [how : {"exit"}, n : {0, 1, 255}]
        \cup {[how |-> "signal", n |-> 9],
              [how |-> "oserror", n |-> 0],
              [how |-> "interrupt", n |-> 0]}

\* subprocess.CompletedProcess.returncode
ReturnCode(res) == IF res.how = "exit" THEN res.n ELSE 0 - res.n

Launch(path, args, env, background) ==
    [cmd |-> <<path>> \o args, env |-> env, waited |-> ~background]

\* A mutant of _run_script that runs the script again after a nonzero code
RunScriptRetrying(path, args, env_overrides, background, environ, res) ==
    LET l == Launch(path, args, EnvWith(environ, env_overrides), background) IN
    IF res.how = "oserror" THEN [spawned |-> <<>>, out |-> Raised("OSError")]
    ELSE IF background THEN [spawned |-> <<l>>, out |-> Returned(0)]
    ELSE IF res.how = "interrupt"
         THEN [spawned |-> <<l>>, out |-> Raised("KeyboardInterrupt")]
    ELSE IF ReturnCode(res) # 0
         THEN [spawned |-> <<l, l>>, out |-> Returned(ReturnCode(res))]
    ELSE [spawned |-> <<l>>, out |-> Returned(ReturnCode(res))]

\* _run_script: one spawn; background returns 0 at once, otherwise the
\* script's return code.  An exception of Popen/run propagates.
RunScript(path, args, env_overrides, background, environ, res) ==
    LET l == Launch(path, args, EnvWith(environ, env_overrides), background) IN
    IF res.how = "oserror" THEN [spawned |-> <<>>, out |-> Raised("OSError")]
    ELSE IF background THEN [spawned |-> <<l>>, out |-> Returned(0)]
    ELSE IF res.how = "interrupt"
         THEN [spawned |-> <<l>>, out |-> Raised("KeyboardInterrupt")]
    ELSE [spawned |-> <<l>>, out |-> Returned(ReturnCode(res))]

\* rc = _run_script(...); sys.exit(rc)
ThenExit(r) ==
    IF r.out.kind = "return"
    THEN [spawned |-> r.spawned, out |-> SysExit(r.out.code)]
    ELSE r

----------------------------------------------------------------------------
(* _parse_kv *)

ValueFlags == {"--project", "--elf", "--build", "--pcsx2-exe"}
KvKeys == {"project", "elf", "build", "pcsx2_exe"}

\* a.lstrip("-").replace("-", "_") on the four flags
KeyOf(a) ==
    CASE a = "--project" -> "project"
      [] a = "--elf" -> "elf"
      [] a = "--build" -> "build"
      [] a = "--pcsx2-exe" -> "pcsx2_exe"

EmptyKv == [k \in KvKeys |-> None]

\* The while loop of _parse_kv from (1-based) index i with dictionary out.
\* out[k] = None stands for "k not in out", which is what kv.get(k) returns.
RECURSIVE ParseKvFrom(_, _, _)
ParseKvFrom(args, i, out) ==
    IF i > Len(args) THEN [ok |-> TRUE, kv |-> out]
    ELSE IF args[i] \in ValueFlags
         THEN IF i + 1 > Len(args)
              THEN [ok |-> FALSE, kv |-> out]
              ELSE ParseKvFrom(args, i + 2,
                               [out EXCEPT ![KeyOf(args[i])] = Some(args[i + 1])])
    ELSE ParseKvFrom(args, i + 1, out)

\* A mutant of _parse_kv that takes a flag in last place as having no value
\* instead of raising
ParseKvLenient(args) ==
    LET r == ParseKvFrom(args, 1, EmptyKv) IN [ok |-> TRUE, kv |-> r.kv]

ParseKv(args) == ParseKvFrom(args, 1, EmptyKv)

----------------------------------------------------------------------------
(* Delegating handlers *)

CH_BASE == "/home/hairglasses/Docs/console-hax"

\* os.path.join of relative components
Join(a, b) == a \o "/" \o b

NewScript == Join(Join(Join(CH_BASE, "hg_ps2_bootstrap"), "scripts"), "new_visualizer.sh")
ScaffoldScripts == Join(Join(CH_BASE, "pcsx2_scaffold"), "scripts")
WatchScript(use_win) ==
    Join(ScaffoldScripts, IF use_win THEN "watch_build_run_win.sh" ELSE "watch_build_run.sh")
RunScriptPath(use_win) ==
    Join(ScaffoldScripts, IF use_win THEN "run_pcsx2_win.sh" ELSE "run_pcsx2.sh")
HookScript == Join(ScaffoldScripts, "install_git_hooks.sh")
DefaultRepo == Join(CH_BASE, "hairglasses_ps2_visualizer_classic")

\* "--win" in args
Contains(args, a) == \E i \in 1..Len(args) : args[i] = a

CmdNew(args, environ, res) ==
    IF args = <<>> THEN [spawned |-> <<>>, out |-> SysExit(1)]
    ELSE LET name == args[1]
             dest == IF Len(args) > 1 THEN args[2] ELSE Join(CH_BASE, name)
         IN ThenExit(RunScript(NewScript, <<name, dest>>, NoOverrides, FALSE, environ, res))

CmdWatch(args, environ, res) ==
    LET use_win == Contains(args, "--win")
        p == ParseKv(args)
        env == [k \in EnvVars |->
                   CASE k = "TARGET_PROJECT" -> p.kv["project"]
                     [] k = "TARGET_ELF" -> p.kv["elf"]
                     [] k = "BUILD_CMD" -> p.kv["build"]
                     [] k = "WIN_PCSX2_EXE" -> p.kv["pcsx2_exe"]]
    IN IF ~p.ok THEN [spawned |-> <<>>, out |-> SysExitMsg]
       ELSE ThenExit(RunScript(WatchScript(use_win), <<>>, env, FALSE, environ, res))

CmdRun(args, environ, res) ==
    LET use_win == Contains(args, "--win")
        p == ParseKv(args)
        call_args == IF Truthy(p.kv["elf"]) THEN <<"--elf", p.kv["elf"][1]>> ELSE <<>>
        env == [k \in {"WIN_PCSX2_EXE"} |-> p.kv["pcsx2_exe"]]
    IN IF ~p.ok THEN [spawned |-> <<>>, out |-> SysExitMsg]
       ELSE IF use_win
            THEN ThenExit(RunScript(RunScriptPath(TRUE), call_args, env, FALSE, environ, res))
            ELSE ThenExit(RunScript(RunScriptPath(FALSE), call_args, NoOverrides, FALSE, environ, res))

CmdHookInstall(args, environ, res) ==
    LET repo == IF args # <<>> THEN args[1] ELSE DefaultRepo
    IN ThenExit(RunScript(HookScript, <<repo>>, NoOverrides, FALSE, environ, res))

----------------------------------------------------------------------------
(* Text that the picker takes apart.  A text is a sequence of atoms: each  *)
(* "(", ")" and " " is an atom of its own, any other run of characters is  *)
(* one atom.                                                               *)

\* s.split(sep)[-1]: what follows the last sep, the whole of s without one
RECURSIVE SplitLast(_, _)
SplitLast(s, sep) ==
    IF s = <<>> THEN <<>>
    ELSE IF s[Len(s)] = sep THEN <<>>
    ELSE LET rest == SplitLast(SubSeq(s, 1, Len(s) - 1), sep)
         IN IF Contains(s, sep) THEN Append(rest, s[Len(s)]) ELSE s

RECURSIVE LStrip(_, _)
LStrip(s, cs) ==
    IF s # <<>> /\ s[1] \in cs THEN LStrip(Tail(s), cs) ELSE s

RECURSIVE RStrip(_, _)
RStrip(s, cs) ==
    IF s # <<>> /\ s[Len(s)] \in cs THEN RStrip(SubSeq(s, 1, Len(s) - 1), cs) ELSE s

\* s.strip(chars)
Strip(s, cs) == RStrip(LStrip(s, cs), cs)

Whitespace == {" "}

----------------------------------------------------------------------------
(* Device Discovery *)

IpA == <<"10.0.0.1">>
IpB == <<"10.0.0.2">>
NameA == <<"A">>
NameB == <<"B", " ", "(", "den", ")">>

\* What zc.get_service_info gives for one add_service callback: an info with
\* an address, an info without addresses, no info (None), or an exception.
Responses ==
    {[name |-> NameA, info |-> "addr", ip |-> IpA],
     [name |-> NameB, info |-> "addr", ip |-> IpB],
     [name |-> NameA, info |-> "addr", ip |-> IpB],
     [name |-> NameB, info |-> "noaddr", ip |-> <<>>],
     [name |-> NameA, info |-> "error", ip |-> <<>>]}

BoundedSeq(S, n) == UNION {[1..m -> S] : m \in 0..n}

\* A discovery pass: is zeroconf importable, does the browse session start,
\* is the sleep interrupted, and which callbacks arrive during the sleep.
ZcNone == [avail |-> FALSE, setup |-> "ok", responses |-> <<>>]
ZcInputs ==
    {ZcNone,
     [avail |-> TRUE, setup |-> "fails", responses |-> <<>>],
     [avail |-> TRUE, setup |-> "interrupt", responses |-> <<>>]}
        \cup [avail : {TRUE}, setup : {"ok"}, responses : BoundedSeq(Responses, MaxResponses)]

\* found[name] = ip on a dict kept as a sequence in insertion order
Put(found, name, ip) ==
    IF \E i \in 1..Len(found) : found[i].name = name
    THEN [i \in 1..Len(found) |->
             IF found[i].name = name THEN [name |-> name, ip |-> ip] ELSE found[i]]
    ELSE Append(found, [name |-> name, ip |-> ip])

\* Listener.add_service on each response in turn
RECURSIVE Found(_)
Found(responses) ==
    IF responses = <<>> THEN <<>>
    ELSE LET r == responses[Len(responses)]
             before == Found(SubSeq(responses, 1, Len(responses) - 1))
         IN IF r.info = "addr" THEN Put(before, r.name, r.ip) ELSE before

\* A mutant of discover() whose listener does not catch the error of a
\* response, so that the pass ends in DeviceError
DiscoverAborting(zc) ==
    IF ~zc.avail THEN [kind |-> "ok", exc |-> "", devices |-> <<>>]
    ELSE IF zc.setup = "fails" THEN [kind |-> "raise", exc |-> "DeviceError", devices |-> <<>>]
    ELSE IF zc.setup = "interrupt"
         THEN [kind |-> "raise", exc |-> "KeyboardInterrupt", devices |-> <<>>]
    ELSE IF \E i \in 1..Len(zc.responses) : zc.responses[i].info = "error"
         THEN [kind |-> "raise", exc |-> "DeviceError", devices |-> <<>>]
    ELSE [kind |-> "ok", exc |-> "", devices |-> Found(zc.responses)]

\* discover(): [kind |-> "ok", devices] or [kind |-> "raise", exc]
Discover(zc) ==
    IF ~zc.avail THEN [kind |-> "ok", exc |-> "", devices |-> <<>>]
    ELSE IF zc.setup = "fails" THEN [kind |-> "raise", exc |-> "DeviceError", devices |-> <<>>]
    ELSE IF zc.setup = "interrupt"
         THEN [kind |-> "raise", exc |-> "KeyboardInterrupt", devices |-> <<>>]
    ELSE [kind |-> "ok", exc |-> "", devices |-> Found(zc.responses)]

----------------------------------------------------------------------------
(* Interactive Picker *)

ManualLabel == <<"Manual", " ", "IP">>

\* f"{d.name} ({d.ip})"
Label(d) == d.name \o <<" ", "(">> \o d.ip \o <<")">>

\* What input() gives: a line, end of input (EOFError) or an interrupt
EofLine == [kind |-> "eof", text |-> ""]
IntrLine == [kind |-> "interrupt", text |-> ""]
Line(t) == [kind |-> "line", text |-> t]

ChoiceTexts == {"1", "2", "3", "4", "0", "-1", "-2", "-3", "-4", "abc", "", " 2 "}
ChoiceInputs == {Line(t) : t \in ChoiceTexts} \cup {EofLine, IntrLine}

\* int(text): the integer, or ValueError
IntOf(t) ==
    CASE t = "1" -> Some(1)
      [] t = "2" -> Some(2)
      [] t = " 2 " -> Some(2)
      [] t = "3" -> Some(3)
      [] t = "4" -> Some(4)
      [] t = "0" -> Some(0)
      [] t = "-1" -> Some(0 - 1)
      [] t = "-2" -> Some(0 - 2)
      [] t = "-3" -> Some(0 - 3)
      [] t = "-4" -> Some(0 - 4)
      [] OTHER -> None

ManualInputs == {[kind |-> "line", text |-> <<"10.0.0.9">>],
                 [kind |-> "line", text |-> <<" ", "10.0.0.9", " ">>],
                 [kind |-> "interrupt", text |-> <<>>]}

\* seq[idx] as Python indexes a list: 0-based, negative from the end
PyIndex(seq, idx) ==
    IF 0 <= idx /\ idx < Len(seq) THEN Some(seq[idx + 1])
    ELSE IF idx < 0 /\ 0 - idx <= Len(seq) THEN Some(seq[Len(seq) + idx + 1])
    ELSE None

\* opts = [labels] or ["Manual IP"]
Options(devs) ==
    IF devs = <<>> THEN <<ManualLabel>> ELSE [i \in 1..Len(devs) |-> Label(devs[i])]

NoUi == [menu |-> <<>>, target |-> None, asked_ip |-> FALSE, picked |-> 0]
NoFile == [kind |-> "absent", doc |-> <<>>]

\* Result of a handler that neither spawns nor touches the settings file
Plain(out, u, file, sv) ==
    [spawned |-> <<>>, out |-> out, ui |-> u, file |-> file, saved |-> sv]

\* Result of a delegating handler
Lift(r, file, sv) ==
    [spawned |-> r.spawned, out |-> r.out, ui |-> NoUi, file |-> file, saved |-> sv]

\* cmd_ui.  ui.picked is the 1-based position of the chosen option.
CmdUi(zc, choice, manual, file, sv) ==
    LET d == Discover(zc)
        opts == Options(d.devices)
        shown == [NoUi EXCEPT !.menu = opts]
        k == IntOf(choice.text)
        c == PyIndex(opts, k[1] - 1)
        pos == IF k[1] - 1 >= 0 THEN k[1] ELSE Len(opts) + k[1]
        chosen == [shown EXCEPT !.picked = pos]
    IN IF d.kind = "raise" THEN Plain(Raised(d.exc), NoUi, file, sv)
       ELSE IF choice.kind = "eof" THEN Plain(Raised("EOFError"), shown, file, sv)
       ELSE IF choice.kind = "interrupt"
            THEN Plain(Raised("KeyboardInterrupt"), shown, file, sv)
       ELSE IF k = None THEN Plain(Raised("ValueError"), shown, file, sv)
       ELSE IF c = None THEN Plain(Raised("IndexError"), shown, file, sv)
       ELSE IF c[1] = ManualLabel
            THEN IF manual.kind = "interrupt"
                 THEN Plain(Raised("KeyboardInterrupt"),
                            [chosen EXCEPT !.asked_ip = TRUE], file, sv)
                 ELSE Plain(Returned(0),
                            [chosen EXCEPT !.asked_ip = TRUE,
                                           !.target = Some(Strip(manual.text, Whitespace))],
                            file, sv)
       ELSE Plain(Returned(0),
                  [chosen EXCEPT !.target = Some(Strip(SplitLast(c[1], "("), {")"}))],
                  file, sv)

\* cmd_list
CmdList(zc, file, sv) ==
    LET d == Discover(zc)
    IN IF d.kind = "raise" THEN Plain(Raised(d.exc), NoUi, file, sv)
       ELSE Plain(Returned(0), NoUi, file, sv)

----------------------------------------------------------------------------
(* Config Store *)

CfgKeys == {"project", "elf", "build", "pcsx2_exe"}

\* sort_keys=True
CfgKeyOrder == <<"build", "elf", "pcsx2_exe", "project">>

\* A loaded YAML scalar: its type tag and its text
Str(t) == [tag |-> "str", text |-> t]

EmptyCfg == [k \in CfgKeys |-> None]

\* The type YAML's implicit resolver gives a plain (unquoted) scalar
PlainTag(t) ==
    CASE t = "" -> "null"
      [] t = "true" -> "bool"
      [] t = "123" -> "int"
      [] OTHER -> "str"

\* yaml.safe_dump of one scalar: a string that would read back as another
\* type is written quoted
Emit(v) ==
    IF v.tag = "str" /\ PlainTag(v.text) # "str"
    THEN [style |-> "quoted", text |-> v.text]
    ELSE [style |-> "plain", text |-> v.text]

\* yaml.safe_load of one scalar
Parse(e) == IF e.style = "quoted" THEN Str(e.text) ELSE [tag |-> PlainTag(e.text), text |-> e.text]

\* yaml.safe_dump(cfg, sort_keys=True): one "key: scalar" line per key
RECURSIVE DumpFrom(_, _)
DumpFrom(cfg, i) ==
    IF i > Len(CfgKeyOrder) THEN <<>>
    ELSE LET k == CfgKeyOrder[i]
             e == Emit(cfg[k][1])
         IN IF cfg[k] = None THEN DumpFrom(cfg, i + 1)
            ELSE <<[key |-> k, style |-> e.style, text |-> e.text]>> \o DumpFrom(cfg, i + 1)

Dump(cfg) == DumpFrom(cfg, 1)

\* yaml.safe_load(f) or {}: a later line of a key wins
SafeLoad(doc) ==
    [k \in CfgKeys |->
        IF \E i \in 1..Len(doc) : doc[i].key = k
        THEN LET last == CHOOSE i \in 1..Len(doc) :
                            /\ doc[i].key = k
                            /\ \A j \in 1..Len(doc) : doc[j].key = k => j <= i
             IN Some(Parse(doc[last]))
        ELSE None]

InvalidFile == [kind |-> "invalid", doc |-> <<>>]
YamlFile(doc) == [kind |-> "yaml", doc |-> doc]

\* A settings file written by hand: unquoted scalars, unsorted
HandFile == YamlFile(<<[key |-> "project", style |-> "plain", text |-> "./hand"],
                       [key |-> "build", style |-> "plain", text |-> "make"]>>)

Loaded(cfg) == [kind |-> "ok", exc |-> "", cfg |-> cfg]
LoadFails(e) == [kind |-> "raise", exc |-> e, cfg |-> EmptyCfg]

\* load_config
LoadConfig(yaml, file) ==
    IF file.kind = "absent" THEN Loaded(EmptyCfg)
    ELSE IF ~yaml THEN Loaded(EmptyCfg)
    ELSE IF file.kind = "invalid" THEN LoadFails("ConfigurationError")
    ELSE Loaded(SafeLoad(file.doc))

\* _cfg_load: the parser's own error is not caught
CfgLoad(yaml, file) ==
    IF file.kind = "absent" \/ ~yaml THEN Loaded(EmptyCfg)
    ELSE IF file.kind = "invalid" THEN LoadFails("YAMLError")
    ELSE Loaded(SafeLoad(file.doc))

\* A mutant of _cfg_save that appends to the file instead of truncating it
CfgSaveAppending(cfg, yaml, file) ==
    IF ~yaml THEN file
    ELSE IF file.kind = "yaml" THEN YamlFile(Dump(cfg) \o file.doc)
    ELSE IF file.kind = "invalid" THEN InvalidFile
    ELSE YamlFile(Dump(cfg))

\* _cfg_save: the file after the call
CfgSave(cfg, yaml, file) ==
    IF yaml THEN YamlFile(Dump(cfg)) ELSE file

DefaultProject == Join(CH_BASE, "hairglasses_ps2_visualizer_classic")
DefaultElf == Join(Join(DefaultProject, "bin"), "hg_ps2_visualizer.elf")
DefaultBuild == "./tools/build_ee.sh --docker --fast"

\* cfg.get(k, default)
Get(cfg, k, default) == IF cfg[k] # None THEN cfg[k][1] ELSE default

\* input(...).strip() on the lines the model enters
StripText(t) ==
    CASE t = "   " -> ""
      [] t = " true " -> "true"
      [] OTHER -> t

\* input(...).strip() or default
Answer(t, default) == IF StripText(t) # "" THEN Str(StripText(t)) ELSE default

\* cmd_config: answers is the four lines entered, intr the prompt (1..4) at
\* which the operator interrupts, 0 for none
CmdConfig(yaml, answers, intr, file, sv) ==
    LET l == CfgLoad(yaml, file)
        cfg == l.cfg
        new_cfg == [k \in CfgKeys |->
                       CASE k = "project" -> Some(Answer(answers[1], Get(cfg, k, Str(DefaultProject))))
                         [] k = "elf" -> Some(Answer(answers[2], Get(cfg, k, Str(DefaultElf))))
                         [] k = "build" -> Some(Answer(answers[3], Get(cfg, k, Str(DefaultBuild))))
                         [] k = "pcsx2_exe" -> Some(Answer(answers[4], Get(cfg, k, Str(""))))]
    IN IF l.kind = "raise" THEN Plain(Raised(l.exc), NoUi, file, sv)
       ELSE IF intr # 0 THEN Plain(Raised("KeyboardInterrupt"), NoUi, file, sv)
       ELSE Plain(Returned(0), NoUi, CfgSave(new_cfg, yaml, file),
                  Some([cfg |-> new_cfg, yaml |-> yaml]))

----------------------------------------------------------------------------
(* Command Dispatcher *)

Commands == {"list", "ui", "new", "watch", "run", "hook-install", "config"}

\* A command line: the subcommand ("" for none), its positionals and options
\* (None when not given), the value-taking flag that stands last without a
\* value ("" for none), and the exception parse_args is made to raise ("").
NoLine ==
    [command |-> "", name |-> None, dest |-> None, repo |-> None, win |-> FALSE,
     project |-> None, elf |-> None, build |-> None, pcsx2_exe |-> None,
     dangling |-> "", raises |-> ""]

\* parser.parse_args() of create_parser(): a usage error leaves with status
\* 2, --help and --version with 0
ParseArgs(cl) ==
    IF cl.raises # "" THEN Raised(cl.raises)
    ELSE IF cl.command \in {"--help", "--version"} THEN Exited(0)
    ELSE IF cl.command \notin Commands \cup {""} THEN Exited(2)
    ELSE IF cl.dangling # "" THEN Exited(2)
    ELSE IF cl.command = "new" /\ cl.name = None THEN Exited(2)
    ELSE Returned(0)

Opt(flag, o) == IF Truthy(o) THEN <<flag, o[1]>> ELSE <<>>
Pos(o) == IF Truthy(o) THEN <<o[1]>> ELSE <<>>

\* The argument lists main() builds for the handlers
NewArgs(ns) == <<ns.name[1]>> \o Pos(ns.dest)
WatchArgs(ns) ==
    (IF ns.win THEN <<"--win">> ELSE <<>>)
        \o Opt("--project", ns.project) \o Opt("--elf", ns.elf)
        \o Opt("--build", ns.build) \o Opt("--pcsx2-exe", ns.pcsx2_exe)
RunArgs(ns) ==
    (IF ns.win THEN <<"--win">> ELSE <<>>)
        \o Opt("--elf", ns.elf) \o Opt("--pcsx2-exe", ns.pcsx2_exe)
HookArgs(ns) == Pos(ns.repo)

MCP2ToolboxErrors == {"MCP2ToolboxError", "ConfigurationError", "DeviceError"}

\* Classes that derive from BaseException but not from Exception
BaseOnly == {"KeyboardInterrupt", "SystemExit", "GeneratorExit"}

\* A mutant of main's except clauses without the final "except Exception"
MainExceptToolboxOnly(out) ==
    IF out.kind = "raise" /\ out.exc = "KeyboardInterrupt" THEN Returned(130)
    ELSE IF out.kind = "raise" /\ out.exc \in MCP2ToolboxErrors THEN Returned(1)
    ELSE out

\* The except clauses of main() around a try block that ended as out
MainExcept(out) ==
    IF out.kind = "raise" /\ out.exc = "KeyboardInterrupt" THEN Returned(130)
    ELSE IF out.kind = "raise" /\ out.exc \in MCP2ToolboxErrors THEN Returned(1)
    ELSE IF out.kind = "raise" /\ out.exc \notin BaseOnly THEN Returned(1)
    ELSE out

\* Inputs of one call other than its arguments
NoInp ==
    [environ |-> [k \in EnvVars |-> None], res |-> [how |-> "exit", n |-> 0],
     zc |-> ZcNone, choice |-> EofLine, manual |-> IntrLine, yaml |-> TRUE,
     answers |-> <<"", "", "", "">>, intr |-> 0]

\* The handler main() routes a parsed command line to
Dispatch(cl, inp, file, sv) ==
    CASE cl.command = "list" -> CmdList(inp.zc, file, sv)
      [] cl.command = "ui" -> CmdUi(inp.zc, inp.choice, inp.manual, file, sv)
      [] cl.command = "new" -> Lift(CmdNew(NewArgs(cl), inp.environ, inp.res), file, sv)
      [] cl.command = "watch" -> Lift(CmdWatch(WatchArgs(cl), inp.environ, inp.res), file, sv)
      [] cl.command = "run" -> Lift(CmdRun(RunArgs(cl), inp.environ, inp.res), file, sv)
      [] cl.command = "hook-install" ->
             Lift(CmdHookInstall(HookArgs(cl), inp.environ, inp.res), file, sv)
      [] cl.command = "config" -> CmdConfig(inp.yaml, inp.answers, inp.intr, file, sv)

\* The try block of main(): parse, "return 1" when no command was given,
\* otherwise the handler and "return 0"
MainTry(cl, inp, file, sv) ==
    LET p == ParseArgs(cl) IN
    IF p.kind # "return" THEN Plain(p, NoUi, file, sv)
    ELSE IF cl.command = "" THEN Plain(Returned(1), NoUi, file, sv)
    ELSE LET h == Dispatch(cl, inp, file, sv)
         IN IF h.out.kind = "return" THEN [h EXCEPT !.out = Returned(0)] ELSE h

----------------------------------------------------------------------------
(* Input domains *)

\* Environments: each variable is inherited in one and unset in another
InheritedSets == {{}, {"TARGET_ELF", "WIN_PCSX2_EXE"}, EnvVars}
ProcEnvirons ==
    {[k \in EnvVars |-> IF k \in S THEN Some("inherited") ELSE None] : S \in InheritedSets}

\* Values given to options and positionals on the command line
ArgValues == {"", "./p", "--win"}
OptValues == {None} \cup {Some(v) : v \in ArgValues}

\* Words of an argument list handed directly to a handler
Tokens == ValueFlags \cup {"--win", "", "./p"}

\* Override dictionaries handed directly to _run_script
OverrideValues == {None, Some(""), Some("set")}
OverrideDicts == UNION {[S -> OverrideValues] : S \in {{}, {"WIN_PCSX2_EXE"}, EnvVars}}

\* Lines entered at the prompts of config
FewAnswers == {<<"", "", "", "">>, <<"./p", " true ", "123", "   ">>}

\* Mappings handed directly to _cfg_save
SettingTexts == {"", "true"}
SettingsMaps == [CfgKeys -> {Some(Str(t)) : t \in SettingTexts}]

----------------------------------------------------------------------------
(* State machine *)

IdleOp == [fn |-> "idle"]
Idle == op.fn = "idle"

Init ==
    /\ op = IdleOp
    /\ spawned = <<>>
    /\ outcome = NoOutcome
    /\ ui = NoUi
    /\ body = NoOutcome
    /\ loaded = None
    /\ devices = <<>>
    /\ cfgfile \in {NoFile, InvalidFile, HandFile}
    /\ saved = None

\* The state after a call that ended as the handler result r
Apply(r) ==
    /\ spawned' = r.spawned
    /\ outcome' = r.out
    /\ ui' = r.ui
    /\ cfgfile' = r.file
    /\ saved' = r.saved
    /\ loaded' = None
    /\ devices' = <<>>
    /\ body' = NoOutcome

\* The state after a call of main(): r is the result of the try block,
\* which the except clauses turn into what main() returns or lets through
ApplyMain(cl, inp) ==
    LET r == MainTry(cl, inp, cfgfile, saved) IN
    /\ op' = [fn |-> "main", cl |-> cl, inp |-> inp]
    /\ spawned' = r.spawned
    /\ outcome' = MainExcept(r.out)
    /\ ui' = r.ui
    /\ cfgfile' = r.file
    /\ saved' = r.saved
    /\ loaded' = None
    /\ devices' = <<>>
    /\ body' = r.out

LaunchWith(environ, res) == [NoInp EXCEPT !.environ = environ, !.res = res]

\* mcp2-toolbox with no subcommand
MainNoCommand ==
    /\ Idle
    /\ ApplyMain(NoLine, NoInp)

\* parse_args does not return: usage error, --help, or an exception
MainParseFails ==
    /\ Idle
    /\ \E cl \in {[NoLine EXCEPT !.command = c] : c \in {"--help", "--version", "bogus"}}
                \cup {[NoLine EXCEPT !.command = "list", !.raises = e] :
                         e \in {"KeyboardInterrupt", "MCP2ToolboxError", "RuntimeError"}}
                \cup {[NoLine EXCEPT !.command = c, !.dangling = f] :
                         c \in {"watch", "run"}, f \in {"--elf", "--pcsx2-exe"}}
                \cup {[NoLine EXCEPT !.command = "watch", !.dangling = f] :
                         f \in {"--project", "--build"}}
                \cup {[NoLine EXCEPT !.command = "new"]} :
          ApplyMain(cl, NoInp)

MainList ==
    /\ Idle
    /\ \E zc \in ZcInputs :
          LET cl == [NoLine EXCEPT !.command = "list"]
              inp == [NoInp EXCEPT !.zc = zc]
          IN ApplyMain(cl, inp)

MainUi ==
    /\ Idle
    /\ \E zc \in ZcInputs, choice \in ChoiceInputs, manual \in ManualInputs :
          LET cl == [NoLine EXCEPT !.command = "ui"]
              inp == [NoInp EXCEPT !.zc = zc, !.choice = choice, !.manual = manual]
          IN ApplyMain(cl, inp)

MainNew ==
    /\ Idle
    /\ \E name \in ArgValues, dest \in OptValues,
          environ \in ProcEnvirons, res \in ScriptResults :
          LET cl == [NoLine EXCEPT !.command = "new", !.name = Some(name), !.dest = dest]
              inp == LaunchWith(environ, res)
          IN ApplyMain(cl, inp)

MainWatch ==
    /\ Idle
    /\ \E win \in BOOLEAN, project \in OptValues, elf \in OptValues,
          build \in OptValues, pcsx2_exe \in OptValues,
          environ \in ProcEnvirons, res \in ScriptResults :
          LET cl == [NoLine EXCEPT !.command = "watch", !.win = win, !.project = project,
                                   !.elf = elf, !.build = build, !.pcsx2_exe = pcsx2_exe]
              inp == LaunchWith(environ, res)
          IN ApplyMain(cl, inp)

MainRun ==
    /\ Idle
    /\ \E win \in BOOLEAN, elf \in OptValues, pcsx2_exe \in OptValues,
          environ \in ProcEnvirons, res \in ScriptResults :
          LET cl == [NoLine EXCEPT !.command = "run", !.win = win,
                                   !.elf = elf, !.pcsx2_exe = pcsx2_exe]
              inp == LaunchWith(environ, res)
          IN ApplyMain(cl, inp)

MainHookInstall ==
    /\ Idle
    /\ \E repo \in OptValues, environ \in ProcEnvirons, res \in ScriptResults :
          LET cl == [NoLine EXCEPT !.command = "hook-install", !.repo = repo]
              inp == LaunchWith(environ, res)
          IN ApplyMain(cl, inp)

MainConfig ==
    /\ Idle
    /\ \E yaml \in BOOLEAN, answers \in FewAnswers, intr \in 0..4 :
          LET cl == [NoLine EXCEPT !.command = "config"]
              inp == [NoInp EXCEPT !.yaml = yaml, !.answers = answers, !.intr = intr]
          IN ApplyMain(cl, inp)

\* _run_script called directly
CallRunScript ==
    /\ Idle
    /\ \E args \in {<<"--elf", "./p">>}, ov \in OverrideDicts, bg \in BOOLEAN,
          environ \in ProcEnvirons, res \in ScriptResults :
          /\ op' = [fn |-> "_run_script", args |-> args, overrides |-> ov,
                    background |-> bg, inp |-> LaunchWith(environ, res)]
          /\ Apply(Lift(RunScript("script.sh", args, ov, bg, environ, res), cfgfile, saved))

\* cmd_new called directly with an argument list
CallCmdNew ==
    /\ Idle
    /\ \E args \in BoundedSeq(ArgValues, MaxArgs),
          environ \in ProcEnvirons, res \in ScriptResults :
          /\ op' = [fn |-> "cmd_new", args |-> args, inp |-> LaunchWith(environ, res)]
          /\ Apply(Lift(CmdNew(args, environ, res), cfgfile, saved))

CallCmdWatch ==
    /\ Idle
    /\ \E args \in BoundedSeq(Tokens, MaxArgs),
          environ \in ProcEnvirons, res \in ScriptResults :
          /\ op' = [fn |-> "cmd_watch", args |-> args, inp |-> LaunchWith(environ, res)]
          /\ Apply(Lift(CmdWatch(args, environ, res), cfgfile, saved))

CallCmdRun ==
    /\ Idle
    /\ \E args \in BoundedSeq(Tokens, MaxArgs),
          environ \in ProcEnvirons, res \in ScriptResults :
          /\ op' = [fn |-> "cmd_run", args |-> args, inp |-> LaunchWith(environ, res)]
          /\ Apply(Lift(CmdRun(args, environ, res), cfgfile, saved))

CallCmdHookInstall ==
    /\ Idle
    /\ \E args \in BoundedSeq(ArgValues, MaxArgs),
          environ \in ProcEnvirons, res \in ScriptResults :
          /\ op' = [fn |-> "cmd_hook_install", args |-> args, inp |-> LaunchWith(environ, res)]
          /\ Apply(Lift(CmdHookInstall(args, environ, res), cfgfile, saved))

\* load_config called directly
CallLoadConfig ==
    /\ Idle
    /\ \E yaml \in BOOLEAN :
          LET l == LoadConfig(yaml, cfgfile) IN
          /\ op' = [fn |-> "load_config", yaml |-> yaml]
          /\ outcome' = IF l.kind = "ok" THEN Returned(0) ELSE Raised(l.exc)
          /\ loaded' = IF l.kind = "ok" THEN Some(l.cfg) ELSE None
          /\ devices' = <<>>
          /\ spawned' = <<>>
          /\ ui' = NoUi
          /\ body' = NoOutcome
          /\ UNCHANGED <<cfgfile, saved>>

\* _cfg_load called directly
CallCfgLoad ==
    /\ Idle
    /\ \E yaml \in BOOLEAN :
          LET l == CfgLoad(yaml, cfgfile) IN
          /\ op' = [fn |-> "_cfg_load", yaml |-> yaml]
          /\ outcome' = IF l.kind = "ok" THEN Returned(0) ELSE Raised(l.exc)
          /\ loaded' = IF l.kind = "ok" THEN Some(l.cfg) ELSE None
          /\ devices' = <<>>
          /\ spawned' = <<>>
          /\ ui' = NoUi
          /\ body' = NoOutcome
          /\ UNCHANGED <<cfgfile, saved>>

\* _cfg_save called directly
CallCfgSave ==
    /\ Idle
    /\ \E yaml \in BOOLEAN, cfg \in SettingsMaps :
          /\ op' = [fn |-> "_cfg_save", yaml |-> yaml]
          /\ Apply(Plain(Returned(0), NoUi, CfgSave(cfg, yaml, cfgfile),
                         Some([cfg |-> cfg, yaml |-> yaml])))

\* cmd_config called directly
CallCmdConfig ==
    /\ Idle
    /\ \E yaml \in BOOLEAN, answers \in FewAnswers, intr \in 0..4 :
          /\ op' = [fn |-> "cmd_config", yaml |-> yaml, answers |-> answers, intr |-> intr]
          /\ Apply(CmdConfig(yaml, answers, intr, cfgfile, saved))

\* discover(timeout_sec) called directly; the timeout only sets how long
\* the pass sleeps
Timeouts == {"0.1", "2.0"}

CallDiscover ==
    /\ Idle
    /\ \E zc \in ZcInputs, timeout_sec \in Timeouts :
          LET d == Discover(zc) IN
          /\ op' = [fn |-> "discover", timeout_sec |-> timeout_sec,
                    inp |-> [NoInp EXCEPT !.zc = zc]]
          /\ outcome' = IF d.kind = "ok" THEN Returned(0) ELSE Raised(d.exc)
          /\ devices' = d.devices
          /\ spawned' = <<>>
          /\ ui' = NoUi
          /\ body' = NoOutcome
          /\ loaded' = None
          /\ UNCHANGED <<cfgfile, saved>>

\* The process ends; the settings file is what remains for the next call
Exit ==
    /\ ~Idle
    /\ op' = IdleOp
    /\ spawned' = <<>>
    /\ outcome' = NoOutcome
    /\ ui' = NoUi
    /\ body' = NoOutcome
    /\ loaded' = None
    /\ devices' = <<>>
    /\ UNCHANGED <<cfgfile, saved>>

\* The command-line tool: calls of main()
Next ==
    \/ MainNoCommand
    \/ MainParseFails
    \/ MainList
    \/ MainUi
    \/ MainNew
    \/ MainWatch
    \/ MainRun
    \/ MainHookInstall
    \/ MainConfig
    \/ Exit

Spec == Init /\ [][Next]_vars

\* The launcher and the delegating handlers called directly
NextHandlers ==
    \/ CallRunScript
    \/ CallCmdNew
    \/ CallCmdWatch
    \/ CallCmdRun
    \/ CallCmdHookInstall
    \/ Exit

SpecHandlers == Init /\ [][NextHandlers]_vars

\* The Config Store on its own
NextStore ==
    \/ CallLoadConfig
    \/ CallCfgLoad
    \/ CallCfgSave
    \/ CallCmdConfig
    \/ Exit

SpecStore == Init /\ [][NextStore]_vars

\* Device Discovery on its own
NextDiscover ==
    \/ CallDiscover
    \/ Exit

SpecDiscover == Init /\ [][NextDiscover]_vars

----------------------------------------------------------------------------
(* Properties *)

IsMain(c) == op.fn = "main" /\ op.cl.command = c

\* A call of main() whose command line parse_args accepts
ValidLine ==
    /\ op.fn = "main"
    /\ op.cl.raises = ""
    /\ op.cl.dangling = ""
    /\ op.cl.command \in Commands
    /\ op.cl.command = "new" => op.cl.name # None

\* C1: the environment a process spawned by _run_script gets is os.environ
\* with exactly the overrides whose value is non-empty laid over it; an
\* override that is None or "" changes nothing.
C1_EnvMergeLaw ==
    op.fn = "_run_script" =>
        \A i \in 1..Len(spawned) :
            spawned[i].env =
                [k \in EnvVars |->
                    IF k \in DOMAIN op.overrides /\ Truthy(op.overrides[k])
                    THEN op.overrides[k]
                    ELSE op.inp.environ[k]]

Delegating == {"new", "watch", "run", "hook-install"}

\* C2: a delegating command with valid arguments whose script starts and
\* exits with code n spawns it exactly once, waits for it, and ends the
\* process with status n.
C2_ExitCodeRelayed ==
    (ValidLine /\ op.cl.command \in Delegating /\ op.inp.res.how = "exit") =>
        /\ Len(spawned) = 1
        /\ spawned[1].waited
        /\ outcome = Exited(op.inp.res.n)

C2_Witness ==
    /\ ValidLine
    /\ op.cl.command = "hook-install"
    /\ op.inp.res = [how |-> "exit", n |-> 255]
    /\ Len(spawned) = 1
    /\ outcome = Exited(255)

\* C3: main() returns 1 without a command, 130 when its try block ends in
\* KeyboardInterrupt, 1 when it ends in an MCP2ToolboxError or any other
\* Exception, 0 when list, ui or config complete; the only thing that leaves
\* main() other than a return value is SystemExit.
C3_ExitCodeMapping ==
    op.fn = "main" =>
        /\ (op.cl.raises = "" /\ op.cl.command = "") => outcome = Returned(1)
        /\ (body.kind = "raise" /\ body.exc = "KeyboardInterrupt") => outcome = Returned(130)
        /\ (body.kind = "raise" /\ body.exc \notin BaseOnly) => outcome = Returned(1)
        /\ (body.kind = "return" /\ op.cl.command \in {"list", "ui", "config"})
               => outcome = Returned(0)
        /\ outcome.kind \in {"return", "exit"}
        /\ outcome.kind = "exit" => body = outcome

C3_Witness ==
    /\ IsMain("ui")
    /\ body = Raised("ValueError")
    /\ outcome = Returned(1)

\* A handler argument list that ends in a value-taking flag which is not
\* itself the value of a flag before it
EndsInFlag(args) ==
    /\ args # <<>>
    /\ args[Len(args)] \in ValueFlags
    /\ Len(args) > 1 => args[Len(args) - 1] \notin ValueFlags

\* The calls C4 is about: new without a name, or a value-taking flag in
\* last place, through main() or on the handler
MissingArgument ==
    \/ op.fn = "cmd_new" /\ op.args = <<>>
    \/ op.fn \in {"cmd_watch", "cmd_run"} /\ EndsInFlag(op.args)
    \/ op.fn = "main" /\ op.cl.raises = "" /\ op.cl.command = "new" /\ op.cl.name = None
    \/ op.fn = "main" /\ op.cl.raises = "" /\ op.cl.dangling # ""

\* C4: such a call ends the process with a nonzero status and has spawned
\* nothing.
C4_ValidationBeforeSpawn ==
    MissingArgument =>
        /\ outcome.kind = "exit"
        /\ outcome.code # 0
        /\ spawned = <<>>

C4_Witness ==
    /\ op.fn = "cmd_watch"
    /\ op.args = <<"--win", "./p", "--build">>
    /\ outcome = Exited(1)
    /\ spawned = <<>>

\* The menu of ui was shown and the operator entered a line
Picked == IsMain("ui") /\ ui.menu # <<>> /\ op.inp.choice.kind = "line"

\* C5: an entry that is an integer k with 1 <= k <= n picks option k; any
\* other entry yields no target and a nonzero result.
C5_PickerRange ==
    Picked =>
        LET k == IntOf(op.inp.choice.text) IN
        IF k # None /\ 1 <= k[1] /\ k[1] <= Len(ui.menu)
        THEN ui.picked = k[1]
        ELSE /\ ui.target = None
             /\ ui.picked = 0
             /\ outcome.kind = "return" /\ outcome.code # 0

\* C6: a menu that is shown always has a "Manual IP" entry.
C6_ManualAlwaysOffered ==
    (IsMain("ui") /\ ui.menu # <<>>) => Contains(ui.menu, ManualLabel)

\* The option of watch that feeds each environment variable
OptionOf(k) ==
    CASE k = "TARGET_PROJECT" -> op.cl.project
      [] k = "TARGET_ELF" -> op.cl.elf
      [] k = "BUILD_CMD" -> op.cl.build
      [] k = "WIN_PCSX2_EXE" -> op.cl.pcsx2_exe

\* C7 as stated: watch through main() hands the script every variable whose
\* option was given with the value given, every other variable as inherited,
\* and no arguments.
C7_WatchOverlayAsStated ==
    (IsMain("watch") /\ spawned # <<>>) =>
        /\ Len(spawned[1].cmd) = 1
        /\ \A k \in EnvVars :
              spawned[1].env[k] =
                  IF OptionOf(k) # None THEN OptionOf(k) ELSE op.inp.environ[k]

\* C7 as amended: the same, for the options given with a non-empty value; an
\* option given as "" leaves its variable as inherited, like one not given.
C7_WatchOverlay ==
    (IsMain("watch") /\ spawned # <<>>) =>
        /\ Len(spawned[1].cmd) = 1
        /\ \A k \in EnvVars :
              spawned[1].env[k] =
                  IF Truthy(OptionOf(k)) THEN OptionOf(k) ELSE op.inp.environ[k]

C7_Witness ==
    /\ IsMain("watch")
    /\ op.cl.project = Some("./p") /\ op.cl.build = Some("") /\ op.cl.elf = None
    /\ op.inp.environ["TARGET_ELF"] = Some("inherited")
    /\ op.inp.environ["BUILD_CMD"] = Some("inherited")
    /\ Len(spawned) = 1
    /\ spawned[1].env["TARGET_PROJECT"] = Some("./p")
    /\ spawned[1].env["TARGET_ELF"] = Some("inherited")
    /\ spawned[1].env["BUILD_CMD"] = Some("inherited")

\* C8: run through main() calls the script with ["--elf", E] when --elf E is
\* given and with no arguments otherwise, and with WIN_PCSX2_EXE=X whenever
\* --pcsx2-exe X is given, the inherited value otherwise.  ("Given" is read
\* as given with a non-empty value.)
C8_RunArgsAndOverlay ==
    (IsMain("run") /\ spawned # <<>>) =>
        /\ Tail(spawned[1].cmd) =
               IF Truthy(op.cl.elf) THEN <<"--elf", op.cl.elf[1]>> ELSE <<>>
        /\ spawned[1].env["WIN_PCSX2_EXE"] =
               IF Truthy(op.cl.pcsx2_exe) THEN op.cl.pcsx2_exe
               ELSE op.inp.environ["WIN_PCSX2_EXE"]

IsLoad == op.fn \in {"load_config", "_cfg_load"}

\* C9: a load gives {} when the file is absent or YAML is unavailable, and
\* raises ConfigurationError, returning nothing, when the file does not
\* parse; so does the load at the start of config.
C9_LoadOutcomes ==
    /\ (IsLoad /\ (cfgfile.kind = "absent" \/ ~op.yaml)) => loaded = Some(EmptyCfg)
    /\ (IsLoad /\ cfgfile.kind = "yaml" /\ op.yaml) => loaded = Some(SafeLoad(cfgfile.doc))
    /\ (IsLoad /\ cfgfile.kind = "invalid" /\ op.yaml) =>
           loaded = None /\ outcome = Raised("ConfigurationError")
    /\ (op.fn = "cmd_config" /\ cfgfile.kind = "invalid" /\ op.yaml) =>
           outcome = Raised("ConfigurationError")

\* C10 as stated: a load that follows a save of S returns S.
C10_RoundTripAsStated ==
    (IsLoad /\ saved # None) => loaded = Some(saved[1].cfg)

\* C10 as amended: a load that follows a save of S, both with the YAML
\* dependency available, returns S; without it the save writes nothing and
\* the load returns {}.
C10_RoundTrip ==
    (IsLoad /\ saved # None) =>
        /\ (saved[1].yaml /\ op.yaml) => loaded = Some(saved[1].cfg)
        /\ ~op.yaml => loaded = Some(EmptyCfg)

C10_Witness ==
    /\ op.fn = "load_config"
    /\ op.yaml
    /\ saved # None
    /\ saved[1].yaml
    /\ saved[1].cfg["elf"] = Some(Str("true"))
    /\ saved[1].cfg["pcsx2_exe"] = Some(Str(""))
    /\ loaded = Some(saved[1].cfg)

\* The responses of a direct call of discover()
Resp == op.inp.zc.responses

\* Response i resolved to an address and no later response of the same
\* service name did: it is the one found[name] keeps
Stands(i) ==
    /\ Resp[i].info = "addr"
    /\ \A j \in (i + 1)..Len(Resp) : ~(Resp[j].info = "addr" /\ Resp[j].name = Resp[i].name)

\* C11: discover() returns [] without error when zeroconf is unavailable;
\* raises DeviceError when the browse session cannot be set up; otherwise
\* returns, whatever errors single responses ran into, a list that holds
\* every response that resolved to an address (a device is known by its
\* service name, so of two responses with one name the later stands) and
\* nothing else; it raises no error other than DeviceError.
C11_DiscoverFailures ==
    op.fn = "discover" =>
        /\ ~op.inp.zc.avail => (outcome = Returned(0) /\ devices = <<>>)
        /\ (op.inp.zc.avail /\ op.inp.zc.setup = "fails") => outcome = Raised("DeviceError")
        /\ (op.inp.zc.avail /\ op.inp.zc.setup = "ok") =>
              /\ outcome = Returned(0)
              /\ \A i \in 1..Len(Resp) :
                    Stands(i) =>
                        \E j \in 1..Len(devices) :
                            devices[j] = [name |-> Resp[i].name, ip |-> Resp[i].ip]
              /\ \A j \in 1..Len(devices) :
                    \E i \in 1..Len(Resp) :
                        Stands(i) /\ devices[j] = [name |-> Resp[i].name, ip |-> Resp[i].ip]
        /\ outcome.kind = "raise" =>
              \/ outcome.exc = "DeviceError"
              \/ outcome.exc = "KeyboardInterrupt" /\ op.inp.zc.setup = "interrupt"

C11_Witness ==
    /\ op.fn = "discover"
    /\ Resp = <<[name |-> NameA, info |-> "error", ip |-> <<>>],
                [name |-> NameB, info |-> "addr", ip |-> IpB]>>
    /\ outcome = Returned(0)
    /\ devices = <<[name |-> NameB, ip |-> IpB]>>

\* The script a call of watch or run through main() spawned
ScriptOf(c, use_win) == IF c = "watch" THEN WatchScript(use_win) ELSE RunScriptPath(use_win)

\* C12: watch and run through main() spawn the Windows script if and only
\* if --win was passed, whatever the other options and their values are.
C12_PlatformByFlag ==
    (op.fn = "main" /\ op.cl.command \in {"watch", "run"} /\ spawned # <<>>) =>
        spawned[1].cmd[1] = ScriptOf(op.cl.command, op.cl.win)

====
